---- MODULE Spec2Model ----
(***************************************************************************)
(* State-machine model of the NFL playoff pool server.                     *)
(*                                                                         *)
(* The repository holds two revisions of the same Express server:          *)
(*   src/server.js          ("server"):  the earlier revision              *)
(*   src/unnamed/part_000   ("part000"): the later revision, which adds    *)
(*       regeneratePlayersCSV, reset-playoff-setup and import-entries      *)
(* The variable `version` fixes which revision is running; every handler   *)
(* is modelled as one action (Node runs a synchronous handler to its end   *)
(* before the next request is served).                                     *)
(*                                                                         *)
(* Text that the code takes apart character by character (player names,    *)
(* team abbreviations, positions, player ids) is a sequence of one-letter  *)
(* strings; text the code only copies or concatenates (entry names,        *)
(* e-mail addresses, notes) is a TLA+ string.                              *)
(***************************************************************************)
EXTENDS Integers, Sequences, FiniteSets, TLC

\* ------------------------------------------------------------------------
\* Bounds of the model
\* ------------------------------------------------------------------------
\* Largest AUTOINCREMENT id of table entries the model hands out.
MaxEntryId == 6

\* Largest value of the one-second clock behind CURRENT_TIMESTAMP.
MaxClock == 1

\* ------------------------------------------------------------------------
\* Program constants
\* ------------------------------------------------------------------------
\* `count >= 4`: the per-email cap of POST /api/entries.
MaxEntriesPerEmail == 4

\* `players.length !== 14`: picks per entry.
PlayersPerEntry == 14

\* `teams.length !== 14`: playoff teams (server.js only).
PlayoffTeamCount == 14

\* ------------------------------------------------------------------------
\* Text helpers
\* ------------------------------------------------------------------------
UpperLetters ==
  <<"A","B","C","D","E","F","G","H","I","J","K","L","M",
    "N","O","P","Q","R","S","T","U","V","W","X","Y","Z">>

LowerLetters ==
  <<"a","b","c","d","e","f","g","h","i","j","k","l","m",
    "n","o","p","q","r","s","t","u","v","w","x","y","z">>

Digits == <<"0","1","2","3","4","5","6","7","8","9">>

Range(s) == { s[i] : i \in DOMAIN s }

\* The character class [a-zA-Z0-9].
Alnum == Range(UpperLetters) \cup Range(LowerLetters) \cup Range(Digits)

IsAlnum(c) == c \in Alnum

\* name.replace(/[^a-zA-Z0-9]/g, '')
Clean(name) == SelectSeq(name, IsAlnum)

\* String.prototype.toUpperCase, one character.
LowerToUpper ==
  [c \in Range(LowerLetters) |->
     UpperLetters[CHOOSE i \in DOMAIN LowerLetters : LowerLetters[i] = c]]

UpperChar(c) == IF c \in DOMAIN LowerToUpper THEN LowerToUpper[c] ELSE c

\* String.prototype.toUpperCase
ToUpperCase(s) == [i \in DOMAIN s |-> UpperChar(s[i])]

\* White space of the model's alphabet: the blank and the line feed.
IsSpace(c) == c \in {" ", "\n"}

\* String.prototype.trim
RECURSIVE TrimLeft(_)
TrimLeft(s) == IF s # <<>> /\ IsSpace(Head(s)) THEN TrimLeft(Tail(s)) ELSE s

RECURSIVE TrimRight(_)
TrimRight(s) ==
  IF s # <<>> /\ IsSpace(s[Len(s)])
  THEN TrimRight(SubSeq(s, 1, Len(s) - 1))
  ELSE s

Trim(s) == TrimRight(TrimLeft(s))

\* Array.prototype.join(sep) over a sequence of texts.
RECURSIVE Join(_, _)
Join(parts, sep) ==
  IF parts = <<>> THEN <<>>
  ELSE IF Len(parts) = 1 THEN parts[1]
  ELSE parts[1] \o sep \o Join(Tail(parts), sep)

\* String.prototype.split(sep) for a one-character separator: the pieces
\* between consecutive occurrences of sep.
Split(s, sep) ==
  LET seps == SelectSeq([i \in DOMAIN s |-> i], LAMBDA i : s[i] = sep)
      m == Len(seps)
  IN  [k \in 1..(m + 1) |->
         SubSeq(s, IF k = 1 THEN 1 ELSE seps[k - 1] + 1,
                   IF k = m + 1 THEN Len(s) ELSE seps[k] - 1)]

\* Concatenation of a sequence of sequences.
RECURSIVE Flatten(_)
Flatten(ss) == IF ss = <<>> THEN <<>> ELSE Head(ss) \o Flatten(Tail(ss))

\* A field of a JSON object, or the default when the object lacks it.
Field(obj, f, default) == IF f \in DOMAIN obj THEN obj[f] ELSE default

\* ------------------------------------------------------------------------
\* Request data the model draws from
\* ------------------------------------------------------------------------
\* Fourteen team abbreviations; one of them carries a non-alphanumeric
\* character (the handlers accept any string as a team).
Teams14 ==
  << <<"A">>, <<"B">>, <<"C">>, <<"D">>, <<"E">>, <<"F">>, <<"G">>,
     <<"H">>, <<"I">>, <<"J">>, <<"L">>, <<"M">>, <<"N">>, <<"N", ".", "E">> >>

\* The team list of the spec's scenario teams = ["A", "B"].
TeamsAB == << <<"A">>, <<"B">> >>

TeamLists == {Teams14, TeamsAB}

QB == <<"Q", "B">>
RB == <<"R", "B">>
WR == <<"W", "R">>
TE == <<"T", "E">>
K == <<"K">>

AlBo == <<"A", "l", " ", "B", "o">>
CyDe == <<"C", "y", "-", "D", "e">>
EdFu == <<"E", "d", "F", "u">>

\* A JSON object is a sequence of <<key, value>> pairs in insertion order
\* (the order Object.keys returns). PoolOne lists TE before QB.
PoolOne ==
  << <<TE, << << <<"B">>, << [name |-> EdFu] >> >> >> >>,
     <<QB, << << <<"A">>, << [name |-> AlBo] >> >> >> >>,
     <<RB, << << <<"A">>, << [name |-> CyDe] >> >>,
              << <<"B">>, << [name |-> AlBo] >> >> >> >> >>

\* Two receivers of one team whose names differ in punctuation only.
PoolTwo ==
  << <<WR, << << <<"A">>, << [name |-> <<"D", ".", "J">>], [name |-> <<"D", "J">>] >> >> >> >> >>

PoolEmpty == << >>

Pools == {PoolOne, PoolTwo, PoolEmpty}

Underscore == <<"_">>

\* The catalog row of a team's kicker, as a client reads it from
\* GET /api/players.
KickerPick(team) ==
  [id |-> K \o Underscore \o team \o Underscore \o Clean(team \o K),
   name |-> team \o K, position |-> K, team |-> team]

QBPick ==
  [id |-> QB \o Underscore \o <<"A">> \o Underscore \o Clean(AlBo),
   name |-> AlBo, position |-> QB, team |-> <<"A">>]

\* 14 picks: the kickers of Teams14.
GoodPicks == [i \in 1..PlayersPerEntry |-> KickerPick(Teams14[i])]

\* 14 picks: the quarterback and 13 kickers.
QBPicks == [i \in 1..PlayersPerEntry |-> IF i = 1 THEN QBPick ELSE GoodPicks[i]]

\* 14 picks, the third without a name.
BadPicks ==
  [i \in 1..PlayersPerEntry |->
     IF i = 3
     THEN [id |-> GoodPicks[i].id, position |-> K, team |-> GoodPicks[i].team]
     ELSE GoodPicks[i]]

\* 13 picks.
ShortPicks == SubSeq(GoodPicks, 1, PlayersPerEntry - 1)

PickArrays == {GoodPicks, QBPicks, BadPicks, ShortPicks}

Emails == {"a@x.com", "b@x.com"}

EntryNames == {"Team A"}

\* Bodies of POST /api/entries; "" stands for an empty or absent field.
SubmitBodies ==
  [entryName : EntryNames \cup {""}, email : Emails \cup {""}, players : PickArrays]

\* Player ids the admin scores.
ScoredIds == {GoodPicks[1].id, QBPick.id}

\* Bodies of POST /api/admin/player-scores: absent fields are left out.
ScoreBodies ==
  UNION { { [player_id |-> p, wildcard |-> 3],
            [player_id |-> p, wildcard |-> 3, divisional |-> 5, conference |-> 0,
             superbowl |-> 0],
            [player_id |-> p] } : p \in ScoredIds }

\* ------------------------------------------------------------------------
\* State
\* ------------------------------------------------------------------------
VARIABLES
  version,         \* "server" (src/server.js) or "part000" (src/unnamed/part_000)
  settingsFile,    \* /var/data/settings.json: NoFile or the JSON object
  entries,         \* table entries, in rowid order
  entry_players,   \* table entry_players, in rowid order
  entry_seq,       \* sqlite_sequence of entries: the last AUTOINCREMENT id
  player_scores,   \* table player_scores: a set of rows
  teamsFile,       \* /var/data/playoff-teams.json: NoFile or the JSON object
  poolFile,        \* /var/data/player-pool.json: NoFile or the JSON object
  playersCsv,      \* players.csv: NoFile or the file's text
  clock,           \* seconds, the value of CURRENT_TIMESTAMP
  res,             \* the last handler that answered and its response
  submitted,       \* history: per email, the successful submissions since the
                   \* last season reset and since the last emptying of entries
  requests         \* POST /api/entries requests in flight: per connection, the
                   \* position of its handler and the handler's locals

vars ==
  <<version, settingsFile, entries, entry_players, entry_seq, player_scores,
    teamsFile, poolFile, playersCsv, clock, res, submitted, requests>>

dbVars == <<entries, entry_players, entry_seq, player_scores>>
entryVars == <<entries, entry_players, entry_seq>>
configVars == <<teamsFile, poolFile, playersCsv>>

\* A file that does not exist (fs.existsSync is false), and one that holds
\* the given JSON value or text.
NoFile == [exists |-> FALSE]

File(content) == [exists |-> TRUE, content |-> content]

Exists(file) == file.exists

Versions == {"server", "part000"}

\* ------------------------------------------------------------------------
\* Settings helpers
\* ------------------------------------------------------------------------
getSettingsClosedByDefault(file) ==
  IF ~Exists(file) THEN [entriesOpen |-> FALSE] ELSE file.content

getSettings(file) ==
  IF ~Exists(file) THEN [entriesOpen |-> TRUE] ELSE file.content

saveSettings(settings) == File(settings)

\* ------------------------------------------------------------------------
\* POST /api/entries
\* ------------------------------------------------------------------------
\* SELECT COUNT(*) AS c FROM entries WHERE email = ?
CountByEmail(rows, email) ==
  Cardinality({ i \in DOMAIN rows : rows[i].email = email })

\* !entryName || !email || !Array.isArray(players) || players.length !== 14
InvalidEntryData(body) ==
  \/ body.entryName = ""
  \/ body.email = ""
  \/ Len(body.players) # PlayersPerEntry

QuotaReachedOffByOne(count) == count > MaxEntriesPerEmail

\* count >= 4
QuotaReached(count) == count >= MaxEntriesPerEmail

FinalNameNoIncrement(entryName, count) ==
  IF count > 0 THEN entryName \o "-" \o ToString(count) ELSE entryName

\* count > 0 ? `${entryName}-${count + 1}` : entryName
FinalName(entryName, count) ==
  IF count > 0 THEN entryName \o "-" \o ToString(count + 1) ELSE entryName

\* INSERT INTO entries (entry_name, email) VALUES (?, ?): paid, notes and
\* created_at take their column defaults.
NewEntry(id, name, email, paid, notes, now) ==
  [id |-> id, entry_name |-> name, email |-> email, paid |-> paid,
   notes |-> notes, created_at |-> now]

\* insertPlayer.run(entryId, p.id, p.name, p.position, p.team) throws when a
\* bound value is undefined (better-sqlite3 binds no undefined; the columns
\* are NOT NULL).
InsertPlayerThrows(p) ==
  \E f \in {"id", "name", "position", "team"} : f \notin DOMAIN p

PlayerRow(entryId, p) ==
  [entry_id |-> entryId, player_id |-> p.id, player_name |-> p.name,
   position |-> p.position, team |-> p.team]

\* The picks inserted before the first throwing one.
RECURSIVE InsertedBeforeThrow(_, _)
InsertedBeforeThrow(entryId, players) ==
  IF players = <<>> \/ InsertPlayerThrows(Head(players)) THEN <<>>
  ELSE <<PlayerRow(entryId, Head(players))>>
         \o InsertedBeforeThrow(entryId, Tail(players))

\* db.transaction(fn)(): the statements of fn commit together, or, when fn
\* throws, the tables are what they were at BEGIN.
TransactionNoRollback(before, after, threw) == after

Transaction(before, after, threw) == IF threw THEN before ELSE after

SubmitEntry(body) ==
  LET settings == getSettings(settingsFile)
      count == CountByEmail(entries, body.email)
      finalName == FinalName(body.entryName, count)
      entryId == entry_seq + 1
      threw == \E i \in DOMAIN body.players : InsertPlayerThrows(body.players[i])
      inserted == InsertedBeforeThrow(entryId, body.players)
      req == "submit"
  IN
  /\ IF ~settings.entriesOpen
     THEN /\ res' = [op |-> req, status |-> 403, error |-> "Entries are currently closed"]
          /\ UNCHANGED <<entryVars, submitted>>
     ELSE IF InvalidEntryData(body)
     THEN /\ res' = [op |-> req, status |-> 400, error |-> "Invalid entry data"]
          /\ UNCHANGED <<entryVars, submitted>>
     ELSE IF QuotaReached(count)
     THEN /\ res' = [op |-> req, status |-> 400,
                     error |-> "Maximum of 4 entries per email reached."]
          /\ UNCHANGED <<entryVars, submitted>>
     ELSE /\ entry_seq < MaxEntryId
          /\ entries' = Append(entries, NewEntry(entryId, finalName, body.email, 0, "", clock))
          /\ entry_seq' = entryId
          /\ entry_players' =
               Transaction(entry_players, entry_players \o inserted, threw)
          /\ IF threw
             THEN /\ res' = [op |-> req, status |-> 500, error |-> "insert failed"]
                  /\ UNCHANGED submitted
             ELSE /\ res' = [op |-> req, status |-> 200, entryId |-> entryId]
                  /\ submitted' =
                       [submitted EXCEPT ![body.email] =
                          [sinceReset |-> @.sinceReset + 1,
                           sinceEmptied |-> @.sinceEmptied + 1]]
  /\ UNCHANGED <<requests, version, settingsFile, player_scores, configVars, clock>>

\* ------------------------------------------------------------------------
\* POST /api/admin/entry-status
\* ------------------------------------------------------------------------
StatusBodies == { [entriesOpen |-> TRUE], [entriesOpen |-> FALSE], <<>> }

SetEntryStatus(body) ==
  LET settings == getSettings(settingsFile)
      req == "entry-status"
  IN
  /\ IF version = "server" /\ "entriesOpen" \notin DOMAIN body
     THEN \* typeof entriesOpen !== 'boolean'
          /\ res' = [op |-> req, status |-> 400, error |-> "entriesOpen must be boolean"]
          /\ UNCHANGED settingsFile
     ELSE \* part_000 stores !!entriesOpen: an absent value is false
          /\ settingsFile' =
               saveSettings([settings EXCEPT !.entriesOpen = Field(body, "entriesOpen", FALSE)])
          /\ res' = [op |-> req, status |-> 200]
  /\ UNCHANGED <<requests, version, dbVars, configVars, clock, submitted>>

\* ------------------------------------------------------------------------
\* POST /api/admin/player-scores
\* ------------------------------------------------------------------------
\* `wildcard || 0`
OrZero(body, f) == Field(body, f, 0)

ScoreRow(body) ==
  [player_id |-> body.player_id,
   wildcard |-> OrZero(body, "wildcard"),
   divisional |-> OrZero(body, "divisional"),
   conference |-> OrZero(body, "conference"),
   superbowl |-> OrZero(body, "superbowl")]

UpsertAccumulating(table, row) ==
  IF \E r \in table : r.player_id = row.player_id
  THEN LET old == CHOOSE r \in table : r.player_id = row.player_id
       IN  (table \ {old}) \cup
             {[player_id |-> row.player_id,
               wildcard |-> old.wildcard + row.wildcard,
               divisional |-> old.divisional + row.divisional,
               conference |-> old.conference + row.conference,
               superbowl |-> old.superbowl + row.superbowl]}
  ELSE table \cup {row}

\* INSERT INTO player_scores ... ON CONFLICT(player_id) DO UPDATE SET
\* wildcard=excluded.wildcard, ...: the row of that player becomes `row`.
Upsert(table, row) ==
  { r \in table : r.player_id # row.player_id } \cup {row}

RecordScore(body) ==
  /\ player_scores' = Upsert(player_scores, ScoreRow(body))
  /\ res' = [op |-> "player-scores", status |-> 200]
  /\ UNCHANGED <<requests, version, settingsFile, entryVars, configVars, clock, submitted>>

\* ------------------------------------------------------------------------
\* POST /api/admin/reset-season
\* ------------------------------------------------------------------------
NoSubmissions == [e \in Emails |-> [sinceReset |-> 0, sinceEmptied |-> 0]]

\* DELETE FROM entry_players; DELETE FROM entries; DELETE FROM player_scores.
\* An AUTOINCREMENT table keeps its sequence: ids are not handed out again.
ResetSeason ==
  /\ entry_players' = <<>>
  /\ entries' = <<>>
  /\ player_scores' = {}
  /\ submitted' = NoSubmissions
  /\ res' = [op |-> "reset-season", status |-> 200]
  /\ UNCHANGED <<requests, version, settingsFile, entry_seq, configVars, clock>>

\* ------------------------------------------------------------------------
\* The clock behind CURRENT_TIMESTAMP (one-second resolution)
\* ------------------------------------------------------------------------
Tick ==
  /\ clock < MaxClock
  /\ clock' = clock + 1
  /\ UNCHANGED <<requests, version, settingsFile, dbVars, configVars, res, submitted>>

\* ------------------------------------------------------------------------
\* GET /api/leaderboard
\* ------------------------------------------------------------------------
\* COALESCE(s.wildcard,0) + COALESCE(s.divisional,0) + COALESCE(s.conference,0)
\* + COALESCE(s.superbowl,0) of the LEFT JOIN row of a pick.
PlayerTotal(scores, playerId) ==
  IF \E s \in scores : s.player_id = playerId
  THEN LET s == CHOOSE s \in scores : s.player_id = playerId
       IN  s.wildcard + s.divisional + s.conference + s.superbowl
  ELSE 0

\* SUM(...) over the entry_players rows joined to one entry.
RECURSIVE TotalScore(_, _, _)
TotalScore(picks, scores, entryId) ==
  IF picks = <<>> THEN 0
  ELSE (IF Head(picks).entry_id = entryId
        THEN PlayerTotal(scores, Head(picks).player_id)
        ELSE 0)
       + TotalScore(Tail(picks), scores, entryId)

\* FROM entries e JOIN entry_players p ON e.id = p.entry_id GROUP BY e.id:
\* the inner join yields a group only for an entry that has a pick.
Joined(rows, picks) ==
  { i \in DOMAIN rows : \E j \in DOMAIN picks : picks[j].entry_id = rows[i].id }

\* ORDER BY total_score DESC, e.created_at ASC: whether row a may come
\* directly before row b. Rows equal in both keys come in either order (SQL
\* leaves the order of rows with equal sort keys unspecified).
OrderBy(a, b) ==
  \/ a.total_score > b.total_score
  \/ a.total_score = b.total_score /\ a.created_at <= b.created_at

\* The result rows, before ordering.
LeaderboardRow(e, picks, scores) ==
  [id |-> e.id, entry_name |-> e.entry_name, created_at |-> e.created_at,
   total_score |-> TotalScore(picks, scores, e.id)]

Leaderboard ==
  LET groups == Joined(entries, entry_players)
      n == Cardinality(groups)
  IN
  /\ \E ord \in [1..n -> groups] :
       LET rows == [k \in 1..n |->
                      LeaderboardRow(entries[ord[k]], entry_players, player_scores)]
       IN  /\ \A k, l \in 1..n : k # l => ord[k] # ord[l]
           /\ \A k \in 1..(n - 1) : OrderBy(rows[k], rows[k + 1])
           /\ res' = [op |-> "leaderboard", status |-> 200, rows |-> rows]
  /\ UNCHANGED <<requests, version, settingsFile, dbVars, configVars, clock, submitted>>

\* ------------------------------------------------------------------------
\* Player catalog generator (players.csv)
\* ------------------------------------------------------------------------
Comma == <<",">>
LineFeed == <<"\n">>

\* 'PlayerID,PlayerName,Position,TeamID'
Header ==
  <<"P","l","a","y","e","r","I","D",",","P","l","a","y","e","r","N","a","m","e",",",
    "P","o","s","i","t","i","o","n",",","T","e","a","m","I","D">>

\* pool[key]: the value of a key of a JSON object, or Undefined.
Undefined == <<"undefined">>

Has(obj, key) == \E i \in DOMAIN obj : obj[i][1] = key

Get(obj, key) ==
  IF Has(obj, key) THEN obj[CHOOSE i \in DOMAIN obj : obj[i][1] = key][2]
  ELSE Undefined

\* function add(pos, team, name): the pushed row
\* `${pos}_${team}_${clean},${name},${pos},${team}`.
add(pos, team, name) ==
  pos \o Underscore \o team \o Underscore \o Clean(name)
    \o Comma \o name \o Comma \o pos \o Comma \o team

\* pool[pos][team].forEach(p => add(pos, team, p.name)) over Object.keys(pool[pos])
PositionRows(pool, pos) ==
  IF ~Has(pool, pos) THEN <<>>
  ELSE LET byTeam == Get(pool, pos)
       IN  Flatten([t \in DOMAIN byTeam |->
                      [q \in DOMAIN byTeam[t][2] |->
                         add(pos, byTeam[t][1], byTeam[t][2][q].name)]])

PositionOrderAsPooled(pool) == [i \in DOMAIN pool |-> pool[i][1]]

\* ['QB','RB','WR','TE']
PositionOrder(pool) == <<QB, RB, WR, TE>>

\* teams.forEach(team => add('K', team, `${team}K`))
KickerRows(teams) == [i \in DOMAIN teams |-> add(K, teams[i], teams[i] \o K)]

\* The text written to players.csv: rows.join('\n').
CatalogText(teams, pool) ==
  LET order == PositionOrder(pool)
      rows == <<Header>>
                \o Flatten([i \in DOMAIN order |-> PositionRows(pool, order[i])])
                \o KickerRows(teams)
  IN  Join(rows, LineFeed)

\* The data rows of a catalog text, each split into its fields:
\* csv.trim().split('\n') without the header line, line.split(',').
CatalogLines(text) ==
  LET lines == Tail(Split(Trim(text), "\n"))
  IN  [i \in DOMAIN lines |-> Split(lines[i], ",")]

\* regeneratePlayersCSV() of part_000: the new players.csv. It returns
\* without writing when either input file is missing; it checks no team count.
regeneratePlayersCSV(teams, pool, csv) ==
  IF ~Exists(teams) \/ ~Exists(pool) THEN csv
  ELSE File(CatalogText(teams.content.teams, pool.content))

\* ------------------------------------------------------------------------
\* POST /api/admin/playoff-teams
\* ------------------------------------------------------------------------
\* server.js: !Array.isArray(teams) || teams.length !== 14. part_000 has no
\* such check.
TeamsRejected(v, teams) == v = "server" /\ Len(teams) # PlayoffTeamCount

SetPlayoffTeams(teams) ==
  LET req == "playoff-teams"
  IN
  /\ IF TeamsRejected(version, teams)
     THEN /\ res' = [op |-> req, status |-> 400, error |-> "Exactly 14 teams required"]
          /\ UNCHANGED teamsFile
     ELSE /\ teamsFile' = File([teams |-> teams])
          /\ res' = [op |-> req, status |-> 200]
  /\ UNCHANGED <<requests, version, settingsFile, dbVars, poolFile, playersCsv, clock, submitted>>

\* ------------------------------------------------------------------------
\* POST /api/admin/player-pool
\* ------------------------------------------------------------------------
\* server.js writes the pool file only; part_000 regenerates players.csv.
SetPlayerPool(pool) ==
  /\ poolFile' = File(pool)
  /\ playersCsv' =
       IF version = "part000"
       THEN regeneratePlayersCSV(teamsFile, poolFile', playersCsv)
       ELSE playersCsv
  /\ res' = [op |-> "player-pool", status |-> 200]
  /\ UNCHANGED <<requests, version, settingsFile, dbVars, teamsFile, clock, submitted>>

\* ------------------------------------------------------------------------
\* POST /api/admin/reset-playoff-setup (part_000)
\* ------------------------------------------------------------------------
ResetPlayoffSetup ==
  /\ version = "part000"
  /\ teamsFile' = NoFile
  /\ poolFile' = NoFile
  /\ playersCsv' = regeneratePlayersCSV(teamsFile', poolFile', playersCsv)
  /\ res' = [op |-> "reset-playoff-setup", status |-> 200]
  /\ UNCHANGED <<requests, version, settingsFile, dbVars, clock, submitted>>

\* ------------------------------------------------------------------------
\* POST /api/admin/generate-players-csv
\* ------------------------------------------------------------------------
\* server.js reads both files with no existence check: fs.readFileSync
\* throws on a missing file and the request ends in a server error.
\* part_000 calls regeneratePlayersCSV() and answers success: true.
GeneratePlayersCsv ==
  LET req == "generate-players-csv"
  IN
  /\ IF version = "server"
     THEN IF ~Exists(teamsFile) \/ ~Exists(poolFile)
          THEN /\ res' = [op |-> req, status |-> 500, error |-> "ENOENT"]
               /\ UNCHANGED playersCsv
          ELSE /\ playersCsv' =
                    File(CatalogText(teamsFile.content.teams, poolFile.content))
               /\ res' = [op |-> req, status |-> 200]
     ELSE /\ playersCsv' = regeneratePlayersCSV(teamsFile, poolFile, playersCsv)
          /\ res' = [op |-> req, status |-> 200]
  /\ UNCHANGED <<requests, version, settingsFile, dbVars, teamsFile, poolFile, clock, submitted>>

\* ------------------------------------------------------------------------
\* POST /api/admin/import-entries (part_000)
\* ------------------------------------------------------------------------
ImpKickerA == [player_name |-> <<"A", "K">>, team |-> <<"a">>, position |-> <<"k">>]

\* A kicker whose team field is blank: the handler takes the team from the name.
ImpKickerB == [player_name |-> <<" ", "B", "K">>, team |-> <<>>, position |-> K]

\* A pick no catalog of the model holds.
ImpUnknown == [player_name |-> <<"Z", "e", "d">>, team |-> <<"A">>, position |-> QB]

ImpRowOne ==
  [entry_name |-> "Imp 1", email |-> "a@x.com", paid |-> TRUE, notes |-> "cash",
   players |-> <<ImpKickerA, ImpKickerB>>]

ImpRowTwo ==
  [entry_name |-> "Imp 2", email |-> "b@x.com", players |-> <<ImpKickerA, ImpUnknown>>]

\* Bodies of POST /api/admin/import-entries.
ImportBodies ==
  { [rows |-> <<ImpRowOne>>], [rows |-> <<ImpRowOne, ImpRowTwo>>], [rows |-> <<>>] }

Bar == <<"|">>

\* `${pname.toUpperCase()}|${team.toUpperCase()}|${pos.toUpperCase()}` of a
\* catalog line [pid, pname, pos, team].
LineKey(fields) ==
  ToUpperCase(fields[2]) \o Bar \o ToUpperCase(fields[4]) \o Bar \o ToUpperCase(fields[3])

\* const lookup = {}; lines.forEach(line => lookup[key] = pid): the keys and
\* ids of the catalog lines, in file order.
BuildLookup(lines) ==
  [i \in DOMAIN lines |-> [key |-> LineKey(lines[i]), pid |-> lines[i][1]]]

\* lookup[key]: the id of the last catalog line with that key, or Undefined.
Lookup(lookup, key) ==
  LET hits == { i \in DOMAIN lookup : lookup[i].key = key }
  IN  IF hits = {} THEN Undefined
      ELSE lookup[CHOOSE i \in hits : \A j \in hits : j <= i].pid

\* The normalised pick: trimmed name, upper-cased team and position, the
\* kicker's team taken from its name when the team is blank or "UNDEFINED".
ImportPick(p) ==
  LET pName == Trim(p.player_name)
      team == ToUpperCase(Trim(p.team))
      pPos == ToUpperCase(Trim(p.position))
      pTeam == IF pPos = K /\ (team = <<>> \/ team = <<"U","N","D","E","F","I","N","E","D">>)
               THEN SubSeq(pName, 1, Len(pName) - 1)
               ELSE team
  IN  [name |-> pName, team |-> pTeam, position |-> pPos,
       searchKey |-> ToUpperCase(pName) \o Bar \o pTeam \o Bar \o pPos]

\* if (!realId) throw new Error(`Player not found: ...`)
PlayerNotFound(lookup, p) == Lookup(lookup, ImportPick(p).searchKey) = Undefined

ImportedPlayerRow(lookup, entryId, p) ==
  LET q == ImportPick(p)
  IN  [entry_id |-> entryId, player_id |-> Lookup(lookup, q.searchKey),
       player_name |-> q.name, position |-> q.position, team |-> q.team]

\* row.players.forEach(...): the rows inserted up to the first throw.
RECURSIVE ImportedPlayers(_, _, _)
ImportedPlayers(lookup, entryId, players) ==
  IF players = <<>> \/ PlayerNotFound(lookup, Head(players)) THEN <<>>
  ELSE <<ImportedPlayerRow(lookup, entryId, Head(players))>>
         \o ImportedPlayers(lookup, entryId, Tail(players))

RowThrows(lookup, row) ==
  \E i \in DOMAIN row.players : PlayerNotFound(lookup, row.players[i])

\* rows.forEach(row => ...) from a store db = [entries, entry_players,
\* entry_seq]: the store when the loop ends or throws.
RECURSIVE ImportRows(_, _, _, _)
ImportRows(lookup, rows, now, db) ==
  IF rows = <<>> THEN db
  ELSE LET row == Head(rows)
           entryId == db.entry_seq + 1
           next ==
             [entries |->
                Append(db.entries,
                       NewEntry(entryId, row.entry_name, row.email,
                                IF Field(row, "paid", FALSE) THEN 1 ELSE 0,
                                Field(row, "notes", ""), now)),
              entry_players |->
                db.entry_players \o ImportedPlayers(lookup, entryId, row.players),
              entry_seq |-> entryId]
       IN  IF RowThrows(lookup, row) THEN next
           ELSE ImportRows(lookup, Tail(rows), now, next)

ImportEntries(body) ==
  LET req == "import-entries"
      lookup == BuildLookup(CatalogLines(playersCsv.content))
      before == [entries |-> entries, entry_players |-> entry_players,
                 entry_seq |-> entry_seq]
      \* DELETE FROM entry_players; DELETE FROM entries
      emptied == [entries |-> <<>>, entry_players |-> <<>>, entry_seq |-> entry_seq]
      threw == \E i \in DOMAIN body.rows : RowThrows(lookup, body.rows[i])
      after == Transaction(before, ImportRows(lookup, body.rows, clock, emptied), threw)
  IN
  /\ version = "part000"
  /\ IF body.rows = <<>>
     THEN /\ res' = [op |-> req, status |-> 400, error |-> "No data"]
          /\ UNCHANGED <<entryVars, submitted>>
     ELSE IF ~Exists(playersCsv)
     THEN \* fs.readFileSync throws; the catch answers 400
          /\ res' = [op |-> req, status |-> 400, error |-> "ENOENT"]
          /\ UNCHANGED <<entryVars, submitted>>
     ELSE /\ entry_seq + Len(body.rows) <= MaxEntryId
          /\ entries' = after.entries
          /\ entry_players' = after.entry_players
          /\ entry_seq' = after.entry_seq
          /\ IF threw
             THEN /\ res' = [op |-> req, status |-> 400, error |-> "Player not found"]
                  /\ UNCHANGED submitted
             ELSE /\ res' = [op |-> req, status |-> 200, imported |-> Len(body.rows)]
                  /\ submitted' =
                       [e \in Emails |-> [submitted[e] EXCEPT !.sinceEmptied = 0]]
  /\ UNCHANGED <<requests, version, settingsFile, player_scores, configVars, clock>>

\* ------------------------------------------------------------------------
\* POST /api/admin/entry-payment, POST /api/admin/entry-notes
\* ------------------------------------------------------------------------
PaymentBodies ==
  { [entryId |-> 1, paid |-> TRUE], [entryId |-> 1, paid |-> FALSE],
    [entryId |-> 2, paid |-> TRUE], [entryId |-> 1] }

NotesBodies ==
  { [entryId |-> 1, notes |-> "cash"], [entryId |-> 2, notes |-> "late"],
    [entryId |-> 1] }

UpdateEveryEntry(rows, entryId, column, value) ==
  [i \in DOMAIN rows |-> [rows[i] EXCEPT ![column] = value]]

\* UPDATE entries SET <column> = ? WHERE id = ?
UpdateEntry(rows, entryId, column, value) ==
  [i \in DOMAIN rows |->
     IF rows[i].id = entryId THEN [rows[i] EXCEPT ![column] = value] ELSE rows[i]]

SetEntryPayment(body) ==
  LET req == "entry-payment"
  IN
  /\ IF version = "server" /\ "paid" \notin DOMAIN body
     THEN \* typeof paid !== 'boolean'
          /\ res' = [op |-> req, status |-> 400, error |-> "paid must be boolean"]
          /\ UNCHANGED entries
     ELSE \* paid ? 1 : 0
          /\ entries' =
               UpdateEntry(entries, body.entryId, "paid",
                           IF Field(body, "paid", FALSE) THEN 1 ELSE 0)
          /\ res' = [op |-> req, status |-> 200]
  /\ UNCHANGED <<requests, version, settingsFile, entry_players, entry_seq,
                 player_scores, configVars, clock, submitted>>

SetEntryNotes(body) ==
  /\ entries' = UpdateEntry(entries, body.entryId, "notes", Field(body, "notes", ""))
  /\ res' = [op |-> "entry-notes", status |-> 200]
  /\ UNCHANGED <<requests, version, settingsFile, entry_players, entry_seq,
                 player_scores, configVars, clock, submitted>>

\* ------------------------------------------------------------------------
\* GET /api/admin/export
\* ------------------------------------------------------------------------
\* One line of the export: "entry_name","email","YES"|"NO","notes","created_at".
ExportRow(e) ==
  [entry_name |-> e.entry_name, email |-> e.email,
   paid |-> IF e.paid # 0 THEN "YES" ELSE "NO",
   notes |-> e.notes, created_at |-> e.created_at]

\* SELECT ... FROM entries ORDER BY created_at DESC: rows of one second come
\* in either order.
Export ==
  LET n == Len(entries)
  IN
  /\ \E ord \in [1..n -> 1..n] :
       /\ \A k, l \in 1..n : k # l => ord[k] # ord[l]
       /\ \A k \in 1..(n - 1) :
            entries[ord[k]].created_at >= entries[ord[k + 1]].created_at
       /\ res' = [op |-> "export", status |-> 200,
                  rows |-> [k \in 1..n |-> ExportRow(entries[ord[k]])]]
  /\ UNCHANGED <<requests, version, settingsFile, dbVars, configVars, clock, submitted>>

\* ------------------------------------------------------------------------
\* POST /api/entries, statement by statement, for requests in flight
\* ------------------------------------------------------------------------
\* Connections that may hold a request at the same time.
MaxRequests == 2

Connections == 1..MaxRequests

NoBody == [entryName |-> "", email |-> "", players |-> <<>>]

\* No request received: no handler queued or running.
IdleFrame == [pc |-> "idle", body |-> NoBody, count |-> 0, entryId |-> 0]

NoRequests == [r \in Connections |-> IdleFrame]

\* The handler of a request is between two of its statements.
OnStack(frame) == frame.pc \in {"counted", "inserted"}

ScheduledAnyTime(reqs, r) == TRUE

\* The handler is one synchronous function, (req, res) => { ... } with no
\* await and no callback, and every database call of better-sqlite3 is
\* synchronous: the event loop runs it to completion, so a statement of
\* request r runs only while no other handler is on the stack.
Scheduled(reqs, r) == \A q \in DOMAIN reqs : q # r => ~OnStack(reqs[q])

\* The request arrives and its handler is queued on the event loop.
Receive(r, body) ==
  /\ requests[r].pc = "idle"
  /\ requests' = [requests EXCEPT ![r] = [IdleFrame EXCEPT !.pc = "queued", !.body = body]]
  /\ UNCHANGED <<version, settingsFile, dbVars, configVars, clock, res, submitted>>

\* The checks of the handler up to and including the SELECT COUNT(*).
CheckQuota(r) ==
  LET body == requests[r].body
      settings == getSettings(settingsFile)
      count == CountByEmail(entries, body.email)
      req == "submit"
  IN
  /\ requests[r].pc = "queued"
  /\ Scheduled(requests, r)
  /\ IF ~settings.entriesOpen
     THEN /\ res' = [op |-> req, status |-> 403, error |-> "Entries are currently closed"]
          /\ requests' = [requests EXCEPT ![r] = IdleFrame]
     ELSE IF InvalidEntryData(body)
     THEN /\ res' = [op |-> req, status |-> 400, error |-> "Invalid entry data"]
          /\ requests' = [requests EXCEPT ![r] = IdleFrame]
     ELSE IF QuotaReached(count)
     THEN /\ res' = [op |-> req, status |-> 400,
                     error |-> "Maximum of 4 entries per email reached."]
          /\ requests' = [requests EXCEPT ![r] = IdleFrame]
     ELSE /\ requests' = [requests EXCEPT ![r].pc = "counted", ![r].count = count]
          /\ UNCHANGED res
  /\ UNCHANGED <<version, settingsFile, dbVars, configVars, clock, submitted>>

\* finalName and INSERT INTO entries (entry_name, email).
InsertEntry(r) ==
  LET body == requests[r].body
      entryId == entry_seq + 1
  IN
  /\ requests[r].pc = "counted"
  /\ Scheduled(requests, r)
  /\ entry_seq < MaxEntryId
  /\ entries' =
       Append(entries,
              NewEntry(entryId, FinalName(body.entryName, requests[r].count),
                       body.email, 0, "", clock))
  /\ entry_seq' = entryId
  /\ requests' = [requests EXCEPT ![r].pc = "inserted", ![r].entryId = entryId]
  /\ UNCHANGED <<version, settingsFile, entry_players, player_scores, configVars,
                 clock, res, submitted>>

\* insertMany(players) and the response.
InsertPlayers(r) ==
  LET body == requests[r].body
      entryId == requests[r].entryId
      threw == \E i \in DOMAIN body.players : InsertPlayerThrows(body.players[i])
      inserted == InsertedBeforeThrow(entryId, body.players)
      req == "submit"
  IN
  /\ requests[r].pc = "inserted"
  /\ Scheduled(requests, r)
  /\ entry_players' = Transaction(entry_players, entry_players \o inserted, threw)
  /\ IF threw
     THEN /\ res' = [op |-> req, status |-> 500, error |-> "insert failed"]
          /\ UNCHANGED submitted
     ELSE /\ res' = [op |-> req, status |-> 200, entryId |-> entryId]
          /\ submitted' =
               [submitted EXCEPT ![body.email] =
                  [sinceReset |-> @.sinceReset + 1,
                   sinceEmptied |-> @.sinceEmptied + 1]]
  /\ requests' = [requests EXCEPT ![r] = IdleFrame]
  /\ UNCHANGED <<version, settingsFile, entries, entry_seq, player_scores,
                 configVars, clock>>

\* ------------------------------------------------------------------------
\* Specification
\* ------------------------------------------------------------------------
\* A fresh deployment: empty tables, no file under /var/data, no players.csv
\* (part_000's start-up regeneratePlayersCSV() finds no input and skips).
Init ==
  /\ version \in Versions
  /\ settingsFile = NoFile
  /\ entries = <<>>
  /\ entry_players = <<>>
  /\ entry_seq = 0
  /\ player_scores = {}
  /\ teamsFile = NoFile
  /\ poolFile = NoFile
  /\ playersCsv = NoFile
  /\ clock = 0
  /\ res = [op |-> "start", status |-> 200]
  /\ submitted = NoSubmissions
  /\ requests = NoRequests

Next ==
  \/ \E body \in SubmitBodies : SubmitEntry(body)
  \/ \E body \in StatusBodies : SetEntryStatus(body)
  \/ \E body \in ScoreBodies : RecordScore(body)
  \/ ResetSeason
  \/ Tick
  \/ Leaderboard
  \/ \E teams \in TeamLists : SetPlayoffTeams(teams)
  \/ \E pool \in Pools : SetPlayerPool(pool)
  \/ ResetPlayoffSetup
  \/ GeneratePlayersCsv
  \/ \E body \in ImportBodies : ImportEntries(body)
  \/ \E r \in Connections, body \in SubmitBodies : Receive(r, body)
  \/ \E r \in Connections : CheckQuota(r)
  \/ \E r \in Connections : InsertEntry(r)
  \/ \E r \in Connections : InsertPlayers(r)
  \/ \E body \in PaymentBodies : SetEntryPayment(body)
  \/ \E body \in NotesBodies : SetEntryNotes(body)
  \/ Export

Spec == Init /\ [][Next]_vars

\* ------------------------------------------------------------------------
\* Specifications of the subsystems
\* ------------------------------------------------------------------------
\* A configured deployment: the admin has posted Teams14 and PoolOne and
\* players.csv has been generated from them (part_000: by the pool post;
\* server.js: by generate-players-csv).
Configured ==
  /\ teamsFile = File([teams |-> Teams14])
  /\ poolFile = File(PoolOne)
  /\ playersCsv = File(CatalogText(Teams14, PoolOne))

InitEntries ==
  /\ version \in Versions
  /\ settingsFile = NoFile
  /\ entries = <<>>
  /\ entry_players = <<>>
  /\ entry_seq = 0
  /\ player_scores = {}
  /\ \/ version = "part000" /\ Configured
     \/ teamsFile = NoFile /\ poolFile = NoFile /\ playersCsv = NoFile
  /\ clock = 0
  /\ res = [op |-> "start", status |-> 200]
  /\ submitted = NoSubmissions
  /\ requests = NoRequests

\* The entry store under submissions, the entries-open switch, season
\* resets and bulk imports. MaxStoreEntries caps the ids handed out.
MaxStoreEntries == 4

EntryBodies ==
  { [entryName |-> "Team A", email |-> "a@x.com", players |-> GoodPicks],
    [entryName |-> "Team A", email |-> "b@x.com", players |-> GoodPicks],
    [entryName |-> "Team A", email |-> "a@x.com", players |-> BadPicks],
    [entryName |-> "", email |-> "a@x.com", players |-> GoodPicks],
    [entryName |-> "Team A", email |-> "", players |-> GoodPicks],
    [entryName |-> "Team A", email |-> "b@x.com", players |-> ShortPicks] }

NextEntries ==
  \/ \E body \in EntryBodies : entry_seq < MaxStoreEntries /\ SubmitEntry(body)
  \/ \E body \in StatusBodies : SetEntryStatus(body)
  \/ ResetSeason
  \/ \E body \in ImportBodies :
       entry_seq + Len(body.rows) <= MaxStoreEntries /\ ImportEntries(body)

SpecEntries == InitEntries /\ [][NextEntries]_vars

\* The per-email quota: submissions of two emails up to MaxEntryId ids,
\* with the operations that empty the entries table.
QuotaBodies ==
  { [entryName |-> "Team A", email |-> "a@x.com", players |-> GoodPicks],
    [entryName |-> "Team A", email |-> "b@x.com", players |-> GoodPicks],
    [entryName |-> "Team A", email |-> "b@x.com", players |-> BadPicks] }

NextQuota ==
  \/ \E body \in QuotaBodies : SubmitEntry(body)
  \/ ResetSeason
  \/ \E body \in ImportBodies : ImportEntries(body)

SpecQuota == InitEntries /\ [][NextQuota]_vars

\* Scoring and the leaderboard over a few submissions.
MaxBoardEntries == 3

BoardBodies ==
  [entryName : EntryNames, email : {"a@x.com"}, players : {GoodPicks, QBPicks, BadPicks}]

NextBoard ==
  \/ \E body \in BoardBodies : entry_seq < MaxBoardEntries /\ SubmitEntry(body)
  \/ \E body \in ScoreBodies : RecordScore(body)
  \/ Tick
  \/ Leaderboard

SpecBoard == Init /\ [][NextBoard]_vars

\* The configuration store and the catalog generator.
NextCatalog ==
  \/ \E teams \in TeamLists : SetPlayoffTeams(teams)
  \/ \E pool \in Pools : SetPlayerPool(pool)
  \/ ResetPlayoffSetup
  \/ GeneratePlayersCsv

SpecCatalog == Init /\ [][NextCatalog]_vars

\* Submissions in flight at the same time: requests arrive on MaxRequests
\* connections and their handlers run statement by statement, with season
\* resets in between. MaxConcurrentIds caps the ids handed out.
MaxConcurrentIds == 5

ConcurrentBodies ==
  { [entryName |-> "Team A", email |-> "a@x.com", players |-> GoodPicks],
    [entryName |-> "Team A", email |-> "b@x.com", players |-> GoodPicks] }

NextConcurrent ==
  \/ \E r \in Connections, body \in ConcurrentBodies : Receive(r, body)
  \/ \E r \in Connections : entry_seq < MaxConcurrentIds /\ CheckQuota(r)
  \/ \E r \in Connections : InsertEntry(r)
  \/ \E r \in Connections : InsertPlayers(r)
  \/ Scheduled(requests, 0) /\ ResetSeason

SpecConcurrent == Init /\ [][NextConcurrent]_vars

\* Every operation on a store of at most MaxFrameEntries entries.
MaxFrameEntries == 2

FrameBodies ==
  { [entryName |-> "Team A", email |-> "a@x.com", players |-> GoodPicks],
    [entryName |-> "Team A", email |-> "a@x.com", players |-> BadPicks] }

FrameScores == { [player_id |-> GoodPicks[1].id, wildcard |-> 3] }

FramePayments == { [entryId |-> 1, paid |-> TRUE], [entryId |-> 1] }

FrameNotes == { [entryId |-> 1, notes |-> "cash"] }

NextFrame ==
  \/ \E body \in FrameBodies : entry_seq < MaxFrameEntries /\ SubmitEntry(body)
  \/ \E body \in FramePayments : SetEntryPayment(body)
  \/ \E body \in FrameNotes : SetEntryNotes(body)
  \/ \E body \in ImportBodies :
       entry_seq + Len(body.rows) <= MaxFrameEntries /\ ImportEntries(body)
  \/ ResetSeason
  \/ \E body \in FrameScores : RecordScore(body)
  \/ SetEntryStatus([entriesOpen |-> FALSE])
  \/ SetPlayoffTeams(Teams14)
  \/ SetPlayerPool(PoolOne)
  \/ ResetPlayoffSetup
  \/ GeneratePlayersCsv
  \/ Leaderboard
  \/ Export

SpecFrame == InitEntries /\ [][NextFrame]_vars

\* ------------------------------------------------------------------------
\* Properties of the entry store
\* ------------------------------------------------------------------------
QuotaError == "Maximum of 4 entries per email reached."
ClosedError == "Entries are currently closed"
NotFoundError == "Player not found"

\* The error text of a response, "" when it carries none.
Err(r) == IF "error" \in DOMAIN r THEN r.error ELSE ""

\* The settings file exists and says entriesOpen: false.
SettingClosed == Exists(settingsFile) /\ ~settingsFile.content.entriesOpen

AllSubmitBodies == SubmitBodies \cup EntryBodies \cup QuotaBodies \cup BoardBodies

\* A submitEntry call that meets the operation's preconditions: entries are
\* open and the request is well formed.
AdmittedSubmit(body) ==
  /\ SubmitEntry(body)
  /\ ~SettingClosed
  /\ body.entryName # "" /\ body.email \in Emails
  /\ Len(body.players) = PlayersPerEntry

\* C1 as stated: once 4 submitEntry calls for an email have succeeded with
\* no season reset in between, a further submitEntry for that email fails
\* with the quota error and leaves entries and entry_players as they were.
C1_QuotaSinceReset ==
  [][\A body \in AllSubmitBodies :
       (AdmittedSubmit(body) /\ submitted[body.email].sinceReset >= MaxEntriesPerEmail)
         => /\ res'.status = 400 /\ Err(res') = QuotaError
            /\ entries' = entries /\ entry_players' = entry_players]_vars

\* C1 as amended: once 4 submitEntry calls for an email have succeeded with
\* neither a season reset nor a bulk import in between, a further
\* submitEntry for that email fails with the quota error and leaves entries
\* and entry_players as they were.
C1_QuotaSinceEmptied ==
  [][\A body \in AllSubmitBodies :
       (AdmittedSubmit(body) /\ submitted[body.email].sinceEmptied >= MaxEntriesPerEmail)
         => /\ res'.status = 400 /\ Err(res') = QuotaError
            /\ entries' = entries /\ entry_players' = entry_players]_vars

\* A fifth submission of a@x.com was refused after its four successes
\* (b@x.com is below the cap, so the refused request was a@x.com's).
C1_Witness ==
  /\ res.op = "submit" /\ Err(res) = QuotaError
  /\ submitted["a@x.com"].sinceEmptied = MaxEntriesPerEmail
  /\ CountByEmail(entries, "b@x.com") < MaxEntriesPerEmail

\* C2: every submitEntry call with 14 picks ends with exactly 1 new entries
\* row and 14 new entry_players rows, or with no new row at all.
C2_SubmitAtomic ==
  [][\A body \in AllSubmitBodies :
       (SubmitEntry(body) /\ Len(body.players) = PlayersPerEntry)
         => \/ /\ Len(entries') = Len(entries) + 1
               /\ Len(entry_players') = Len(entry_players) + PlayersPerEntry
            \/ /\ entries' = entries
               /\ entry_players' = entry_players]_vars

\* The suffix of the 2nd, 3rd and 4th entry of an email.
Suffix(count) == CASE count = 1 -> "-2" [] count = 2 -> "-3" [] count = 3 -> "-4"

\* C3: a submitEntry that stores an entry stores entryName itself when the
\* email had no prior entry, and entryName followed by -2, -3, -4 when it
\* had 1, 2, 3 prior entries.
C3_Disambiguation ==
  [][\A body \in AllSubmitBodies :
       (SubmitEntry(body) /\ Len(entries') = Len(entries) + 1)
         => LET count == CountByEmail(entries, body.email)
                stored == entries'[Len(entries')]
            IN  /\ stored.email = body.email
                /\ count \in 0..3
                /\ stored.entry_name =
                     IF count = 0 THEN body.entryName
                     ELSE body.entryName \o Suffix(count)]_vars

\* The fourth entry of an email was stored with the suffix -4.
C3_Witness ==
  /\ res.op = "submit" /\ res.status = 200
  /\ Len(entries) = 4
  /\ entries[1].entry_name = "Team A" /\ entries[1].email = "a@x.com"
  /\ entries[4].entry_name = "Team A-4" /\ entries[4].email = "a@x.com"

\* C4: while the settings file says entriesOpen: false every submitEntry
\* fails with the closed error, whatever else is wrong with the request,
\* and leaves the entry store unchanged; the setting leaves false only by
\* an entry-status post of true; with no settings file a submission is
\* never refused as closed and a well-formed one under the quota succeeds.
C4_ClosedRefusesAll ==
  [][/\ \A body \in AllSubmitBodies :
          SubmitEntry(body) =>
            /\ SettingClosed =>
                 /\ res'.status = 403 /\ Err(res') = ClosedError
                 /\ UNCHANGED <<entries, entry_players, entry_seq>>
            /\ ~Exists(settingsFile) =>
                 /\ Err(res') # ClosedError
                 /\ (/\ body.entryName # "" /\ body.email # ""
                     /\ body.players = GoodPicks
                     /\ CountByEmail(entries, body.email) < MaxEntriesPerEmail)
                      => res'.status = 200 /\ Len(entries') = Len(entries) + 1
     /\ (SettingClosed /\ ~SettingClosed') =>
          \E body \in StatusBodies :
            SetEntryStatus(body) /\ Field(body, "entriesOpen", FALSE)]_vars

\* A submission was refused as closed while the store holds entries.
C4_Witness ==
  /\ SettingClosed
  /\ res.op = "submit" /\ res.status = 403 /\ Err(res) = ClosedError
  /\ entries # <<>>

\* C10: an import of which some pick resolves to no line of the current
\* catalog fails with the player-not-found error and leaves entries and
\* entry_players as they were before the import.
C10_ImportAllOrNothing ==
  [][\A body \in ImportBodies :
       (/\ ImportEntries(body)
        /\ Exists(playersCsv)
        /\ \E i \in DOMAIN body.rows : \E j \in DOMAIN body.rows[i].players :
             PlayerNotFound(BuildLookup(CatalogLines(playersCsv.content)),
                            body.rows[i].players[j]))
         => /\ res'.status = 400 /\ Err(res') = NotFoundError
            /\ entries' = entries /\ entry_players' = entry_players]_vars

\* An import failed on an unresolved pick and the submitted entries that
\* were stored before it are still there.
C10_Witness ==
  /\ res.op = "import-entries" /\ Err(res) = NotFoundError
  /\ entries # <<>> /\ entries[1].entry_name = "Team A"
  /\ Len(entry_players) >= PlayersPerEntry

\* ------------------------------------------------------------------------
\* Properties of scoring and the leaderboard
\* ------------------------------------------------------------------------
\* C5: the leaderboard lists entries by descending total score, and of two
\* entries with equal totals the one submitted earlier (the smaller id: ids
\* are handed out in submission order) comes first.
C5_LeaderboardOrder ==
  res.op = "leaderboard" =>
    \A k, l \in DOMAIN res.rows :
      k < l =>
        /\ res.rows[k].total_score >= res.rows[l].total_score
        /\ res.rows[k].total_score = res.rows[l].total_score
             => res.rows[k].id < res.rows[l].id

\* The sum of the round scores of the picks of an entry, a pick without a
\* player_scores row counting 0.
RECURSIVE SumOfPicks(_, _)
SumOfPicks(js, scores) ==
  IF js = {} THEN 0
  ELSE LET j == CHOOSE x \in js : TRUE
           hit == { r \in scores : r.player_id = entry_players[j].player_id }
           own == IF hit = {} THEN 0
                  ELSE LET r == CHOOSE r \in hit : TRUE
                       IN  r.wildcard + r.divisional + r.conference + r.superbowl
       IN  own + SumOfPicks(js \ {j}, scores)

\* C6: the leaderboard holds exactly one row for every entry of the store,
\* and the row's total is the sum of the round scores of the entry's picks.
C6_LeaderboardTotals ==
  res.op = "leaderboard" =>
    /\ Len(res.rows) = Len(entries)
    /\ \A i \in DOMAIN entries :
         \E k \in DOMAIN res.rows :
           /\ res.rows[k].id = entries[i].id
           /\ res.rows[k].entry_name = entries[i].entry_name
           /\ res.rows[k].total_score =
                SumOfPicks({ j \in DOMAIN entry_players :
                               entry_players[j].entry_id = entries[i].id },
                           player_scores)

\* The row recordScore is to leave for a request body.
ExpectedScoreRow(body) ==
  [player_id |-> body.player_id,
   wildcard |-> IF "wildcard" \in DOMAIN body THEN body.wildcard ELSE 0,
   divisional |-> IF "divisional" \in DOMAIN body THEN body.divisional ELSE 0,
   conference |-> IF "conference" \in DOMAIN body THEN body.conference ELSE 0,
   superbowl |-> IF "superbowl" \in DOMAIN body THEN body.superbowl ELSE 0]

\* C7: after recordScore the table holds exactly one row for the player,
\* with the four values of the request (an absent one stored as 0) whatever
\* the row was before; the rows of other players are as before; recording
\* what is already stored changes nothing.
C7_ReplacingUpsert ==
  [][\A body \in ScoreBodies :
       RecordScore(body) =>
         /\ { r \in player_scores' : r.player_id = body.player_id }
              = {ExpectedScoreRow(body)}
         /\ { r \in player_scores' : r.player_id # body.player_id }
              = { r \in player_scores : r.player_id # body.player_id }
         /\ ExpectedScoreRow(body) \in player_scores
              => player_scores' = player_scores]_vars

\* Both players are scored, one of them with 3 and 5 in the first two rounds.
C7_Witness ==
  /\ res.op = "player-scores"
  /\ Cardinality(player_scores) = 2
  /\ \E r \in player_scores :
       /\ r.wildcard = 3 /\ r.divisional = 5
       /\ r.conference = 0 /\ r.superbowl = 0

\* ------------------------------------------------------------------------
\* Properties of the catalog generator
\* ------------------------------------------------------------------------
\* An input file is missing or the stored team list has not 14 teams.
ConfigIncomplete ==
  \/ ~Exists(teamsFile)
  \/ ~Exists(poolFile)
  \/ Len(teamsFile.content.teams) # PlayoffTeamCount

\* C8: catalog generation with an incomplete configuration fails and leaves
\* players.csv as it was; whenever players.csv is written, the stored team
\* list has exactly 14 teams.
C8_GenerationNeedsFullConfig ==
  [][/\ (GeneratePlayersCsv /\ ConfigIncomplete)
          => res'.status >= 400 /\ playersCsv' = playersCsv
     /\ playersCsv' # playersCsv
          => /\ Exists(teamsFile') /\ Exists(poolFile')
             /\ Len(teamsFile'.content.teams) = PlayoffTeamCount]_vars

\* A step that writes players.csv from the stored teams and pool.
GenerationStep ==
  /\ \/ GeneratePlayersCsv
     \/ version = "part000" /\ \E pool \in Pools : SetPlayerPool(pool)
  /\ res'.status = 200
  /\ Exists(teamsFile') /\ Exists(poolFile')

PositionRank(pos) ==
  CASE pos = QB -> 1 [] pos = RB -> 2 [] pos = WR -> 3 [] pos = TE -> 4 [] OTHER -> 5

\* The <<position, team, name>> of every player of a pool.
PoolPlayers(pool) ==
  UNION { UNION { { <<pool[a][1], pool[a][2][b][1], pool[a][2][b][2][c].name>> :
                      c \in DOMAIN pool[a][2][b][2] } :
                  b \in DOMAIN pool[a][2] } :
          a \in DOMAIN pool }

\* The kicker id as the claim words it, and as the generator derives it.
KickerIdVerbatim(team) == K \o Underscore \o team \o Underscore \o team \o K

KickerIdSanitized(team) ==
  K \o Underscore \o team \o Underscore \o SelectSeq(team \o K, IsAlnum)

\* The catalog text holds the pool's players ordered QB, RB, WR, TE and
\* then one kicker line per team, in team order, named {team}K with the
\* id kid(team).
CatalogShape(text, teams, pool, kid(_)) ==
  LET lines == CatalogLines(text)
      n == Len(lines)
      kt == Len(teams)
  IN  /\ n >= kt
      /\ \A i \in 1..kt :
           lines[n - kt + i] = <<kid(teams[i]), teams[i] \o K, K, teams[i]>>
      /\ \A i, j \in 1..(n - kt) :
           i < j => PositionRank(lines[i][3]) <= PositionRank(lines[j][3])
      /\ \A i \in 1..(n - kt) : PositionRank(lines[i][3]) <= 4
      /\ { <<lines[i][3], lines[i][4], lines[i][2]>> : i \in 1..(n - kt) }
           = PoolPlayers(pool)

\* Generating again right after a generation leaves players.csv as it is.
RegenerationKeeps ==
  (res.op = "generate-players-csv" /\ res.status = 200 /\ GeneratePlayersCsv)
    => playersCsv' = playersCsv

\* C9 as stated: regeneration from unchanged inputs yields the identical
\* catalog; the catalog lists the pool's QB, RB, WR, TE rows in that order
\* and then one kicker per playoff team named {team}K with id
\* K_{team}_{team}K.
C9_CatalogVerbatimKickers ==
  [][/\ RegenerationKeeps
     /\ GenerationStep =>
          CatalogShape(playersCsv'.content, teamsFile'.content.teams,
                       poolFile'.content, KickerIdVerbatim)]_vars

\* C9 as amended: the same, the kicker's id being K_{team}_ followed by
\* {team}K stripped of its non-alphanumeric characters.
C9_CatalogSanitizedKickers ==
  [][/\ RegenerationKeeps
     /\ GenerationStep =>
          CatalogShape(playersCsv'.content, teamsFile'.content.teams,
                       poolFile'.content, KickerIdSanitized)]_vars

\* players.csv was generated from 14 teams and the pool of four players:
\* 18 lines.
C9_Witness ==
  /\ res.op = "generate-players-csv" /\ res.status = 200
  /\ teamsFile = File([teams |-> Teams14]) /\ poolFile = File(PoolOne)
  /\ Exists(playersCsv)
  /\ Len(CatalogLines(playersCsv.content)) = PlayoffTeamCount + 4

\* ------------------------------------------------------------------------
\* Properties of submissions in flight
\* ------------------------------------------------------------------------
\* C11: under any interleaving of submissions in flight, the count a handler
\* has read is still the number of entries of its email when it inserts (no
\* step of another request separates the count check from the insert), and
\* no email has more than 4 entries created by submissions.
C11_QuotaAuthoritative ==
  /\ \A r \in Connections :
       requests[r].pc = "counted" =>
         requests[r].count = CountByEmail(entries, requests[r].body.email)
  /\ \A r, q \in Connections : r # q => ~(OnStack(requests[r]) /\ OnStack(requests[q]))
  /\ \A e \in Emails : CountByEmail(entries, e) <= MaxEntriesPerEmail

\* Two submissions of one email are in flight at once: one has inserted the
\* fourth entry of the email while the other is still queued.
C11_Witness ==
  \E r, q \in Connections :
    /\ r # q
    /\ requests[r].pc = "inserted"
    /\ requests[q].pc = "queued"
    /\ requests[q].body.email = requests[r].body.email
    /\ CountByEmail(entries, requests[r].body.email) = MaxEntriesPerEmail

\* ------------------------------------------------------------------------
\* Properties of the relationship between entries and entry_players
\* ------------------------------------------------------------------------
\* The entry_players rows that reference the entry with the given id.
PicksOf(entryId) == { j \in DOMAIN entry_players : entry_players[j].entry_id = entryId }

\* C12: in every reachable state every entries row has exactly 14
\* entry_players rows referencing it, and every entry_players row references
\* an existing entries row.
C12_FourteenPicksPerEntry ==
  /\ \A i \in DOMAIN entries : Cardinality(PicksOf(entries[i].id)) = PlayersPerEntry
  /\ \A j \in DOMAIN entry_players :
       \E i \in DOMAIN entries : entries[i].id = entry_players[j].entry_id

\* The half of C12 that the code keeps: no entry_players row without its
\* entries row.
PicksReferenceEntries ==
  \A j \in DOMAIN entry_players :
    \E i \in DOMAIN entries : entries[i].id = entry_players[j].entry_id

\* ------------------------------------------------------------------------
\* Properties of the catalog's freshness
\* ------------------------------------------------------------------------
\* A completed mutation of the playoff teams or of the player pool.
ConfigMutation ==
  /\ \/ \E teams \in TeamLists : SetPlayoffTeams(teams)
     \/ \E pool \in Pools : SetPlayerPool(pool)
     \/ ResetPlayoffSetup
  /\ res'.status = 200

\* players.csv is the catalog of the stored teams and pool (asked only
\* where both are stored).
CatalogCurrent ==
  (Exists(teamsFile) /\ Exists(poolFile)) =>
    playersCsv = File(CatalogText(teamsFile.content.teams, poolFile.content))

\* C13: after every completed mutation of the playoff teams or of the
\* player pool (set teams, set pool, reset playoff setup) the catalog file
\* equals the catalog generated from the current teams and pool.
C13_CatalogNeverStale == [][ConfigMutation => CatalogCurrent']_vars

\* The playerId column of the catalog in players.csv.
CatalogIds ==
  LET lines == CatalogLines(playersCsv.content)
  IN  [i \in DOMAIN lines |-> lines[i][1]]

\* C14: playerId is unique within every generated catalog: no two rows of
\* players.csv carry the same playerId.
C14_PlayerIdUnique ==
  Exists(playersCsv) =>
    \A i, j \in DOMAIN CatalogIds : i # j => CatalogIds[i] # CatalogIds[j]

\* ------------------------------------------------------------------------
\* Frame of the entry rows
\* ------------------------------------------------------------------------
\* The entry_players rows of one entry, in rowid order.
PicksIn(picks, entryId) == SelectSeq(picks, LAMBDA p : p.entry_id = entryId)

\* The entries row e is still stored, equal to e in every column outside
\* `columns`, and so are its entry_players rows.
Kept(e, columns) ==
  /\ \E k \in DOMAIN entries' :
       /\ entries'[k].id = e.id
       /\ \A c \in (DOMAIN e) \ columns : entries'[k][c] = e[c]
  /\ PicksIn(entry_players', e.id) = PicksIn(entry_players, e.id)

\* The columns a step may change in the existing entries row e: paid or
\* notes, by the admin edit addressed to e.
Editable(e) ==
  IF \E body \in PaymentBodies : body.entryId = e.id /\ SetEntryPayment(body)
  THEN {"paid"}
  ELSE IF \E body \in NotesBodies : body.entryId = e.id /\ SetEntryNotes(body)
  THEN {"notes"}
  ELSE {}

\* A bulk import that succeeded.
ImportDone == res'.status = 200 /\ \E body \in ImportBodies : ImportEntries(body)

\* C15 (as stated): an entries row is deleted only by a season reset and
\* changed only in paid and notes by the admin payment and notes edits;
\* every other operation, the bulk import included, leaves every existing
\* entries row and its entry_players rows present and unchanged.
C15_EntryFrame ==
  [][~ResetSeason => \A i \in DOMAIN entries : Kept(entries[i], Editable(entries[i]))]_vars

\* C15 (amended): an entries row is deleted only by a season reset or by a
\* bulk import that succeeds, and changed only in paid and notes by the admin
\* edit addressed to it; every other operation, a failed import included,
\* leaves every existing entries row and its entry_players rows present and
\* unchanged.
C15_EntryFrameButImport ==
  [][~(ResetSeason \/ ImportDone) =>
       \A i \in DOMAIN entries : Kept(entries[i], Editable(entries[i]))]_vars

\* A submitted entry has been marked paid and annotated, still has its 14
\* picks, and another entry has been submitted after the edits.
C15_Witness ==
  \E i, k \in DOMAIN entries :
    /\ i # k
    /\ entries[i].paid = 1
    /\ entries[i].notes = "cash"
    /\ Len(PicksIn(entry_players, entries[i].id)) = PlayersPerEntry
    /\ res.op = "submit"

====
